---- MODULE Spec2Model ----
(***************************************************************************)
(* The patch lifecycle of file-patch (src/src/patcher.ts): createPatch,    *)
(* commitPatch, applyPatch and revertPatch, each a sequence of filesystem  *)
(* calls, over a small filesystem.  A path is a sequence of components, a  *)
(* text is a sequence of lines.                                            *)
(***************************************************************************)
EXTENDS Integers, Sequences, FiniteSets, TLC

\* ------------------------------------------------------------------ bounds
\* Longest text, in lines, that the user writes and that is kept on disk.
MaxLen == 4

\* ------------------------------------------------------- program constants
\* fuzzFactor passed to the diff library's applyPatch.
FuzzFactor == 3
\* Context lines of the diff library's createPatch (its default).
Context == 4

PATCHES_DIR == <<"patches">>

\* The one base name of the model; both live files carry it.
FileName == "a.txt"

\* The live files: one in the working directory, one in another directory.
LivePaths == { <<"a.txt">>, <<"sub", "a.txt">> }

\* The lines a text is made of.  They are all alike, so a text is told by its
\* number of lines: two texts differ by lines added or removed at the end.
Lines == {"a"}

RECURSIVE SeqsUpTo(_)
SeqsUpTo(n) ==
  IF n = 0 THEN { <<>> }
  ELSE LET shorter == SeqsUpTo(n - 1)
       IN shorter \cup { Append(s, l) : s \in { t \in shorter : Len(t) = n - 1 }, l \in Lines }

\* The texts a user writes.
Contents == SeqsUpTo(MaxLen)

\* ------------------------------------------------------------ path helpers
basename(p) == p[Len(p)]
dirname(p) == SubSeq(p, 1, Len(p) - 1)
join(dir, name) == Append(dir, name)
\* path.resolve: the absolute path of p, relative to the working directory.
resolve(p) == <<"", "cwd">> \o p

\* `${fileName}<suffix>`
Suffixed(fileName, suffix) ==
  CASE fileName = "a.txt" /\ suffix = ".patch" -> "a.txt.patch"
    [] fileName = "a.txt" /\ suffix = ".patched" -> "a.txt.patched"
    [] fileName = "a.txt" /\ suffix = ".original.backup" -> "a.txt.original.backup"

PatchDirOf(fileName) == join(PATCHES_DIR, fileName)
CopyPathOf(fileName) == join(PatchDirOf(fileName), fileName)
OrigPathOf(fileName) == join(PatchDirOf(fileName), "original-path.txt")
PatchPathOf(fileName) == join(PatchDirOf(fileName), Suffixed(fileName, ".patch"))
PatchedPathOf(fileName) == join(PatchDirOf(fileName), Suffixed(fileName, ".patched"))
BackupPathOf(fileName) == join(PatchDirOf(fileName), Suffixed(fileName, ".original.backup"))

RecordFiles ==
  { CopyPathOf(FileName), OrigPathOf(FileName), PatchPathOf(FileName),
    PatchedPathOf(FileName), BackupPathOf(FileName) }

FsPaths == LivePaths \cup RecordFiles \cup { PATCHES_DIR, PatchDirOf(FileName) }

\* ------------------------------------------------------------- filesystem
\* An entry is nothing, a directory, a regular file (data: its content) or a
\* symbolic link (data: its target, as written).
Nothing == [kind |-> "none", data |-> <<>>]
Dir == [kind |-> "dir", data |-> <<>>]
File(data) == [kind |-> "file", data |-> data]
Symlink(target) == [kind |-> "symlink", data |-> target]

\* fs: the filesystem.  result: what the last invocation returned.
\* preApply: per live path, the text read right before the apply that is in
\* force.  succeeded: which of create and commit have returned success so far.
\* procs: the invocations in flight, when their filesystem calls are taken
\* one at a time.
VARIABLES fs, result, preApply, succeeded, procs

vars == <<fs, result, preApply, succeeded, procs>>

\* lstat: the entry at the path itself, links not followed.
lstat(f, p) == IF p \in DOMAIN f THEN f[p] ELSE Nothing

\* A relative link target is resolved against the directory of the link.
linkTarget(p, target) == dirname(p) \o target

\* The path a read or a copy of p ends at: p, or the file its link names.
follow(f, p) ==
  IF lstat(f, p).kind = "symlink" THEN linkTarget(p, lstat(f, p).data) ELSE p

\* fs.access / fs.readFile succeed when the followed path holds a file.
exists(f, p) == lstat(f, follow(f, p)).kind \in {"file", "dir"}
readable(f, p) == lstat(f, follow(f, p)).kind = "file"
readFile(f, p) == lstat(f, follow(f, p)).data

mkdir(f, p) == IF f[p].kind = "dir" THEN f ELSE [f EXCEPT ![p] = Dir]
writeFile(f, p, data) == [f EXCEPT ![p] = File(data)]
unlink(f, p) == [f EXCEPT ![p] = Nothing]
copyFile(f, src, dest) == [f EXCEPT ![dest] = File(readFile(f, src))]
symlink(f, target, p) == [f EXCEPT ![p] = Symlink(target)]

Ok(f) == [fs |-> f, err |-> "none"]
Fail(f, e) == [fs |-> f, err |-> e]

\* ---------------------------------------------------------- diff library
\* The edit script of the library's line diff: <<" ", l>> a common line,
\* <<"-", l>> a line of old only, <<"+", l>> a line of new only; as many
\* common lines as possible, a common first line always kept.
RECURSIVE diffLines(_, _)
diffLines(old, new) ==
  IF old = <<>> THEN [i \in 1..Len(new) |-> <<"+", new[i]>>]
  ELSE IF new = <<>> THEN [i \in 1..Len(old) |-> <<"-", old[i]>>]
  ELSE IF Head(old) = Head(new)
    THEN << <<" ", Head(old)>> >> \o diffLines(Tail(old), Tail(new))
  ELSE LET del == << <<"-", Head(old)>> >> \o diffLines(Tail(old), new)
           ins == << <<"+", Head(new)>> >> \o diffLines(old, Tail(new))
       IN IF Len(del) <= Len(ins) THEN del ELSE ins

Count(ops, tags) == Len(SelectSeq(ops, LAMBDA o : o[1] \in tags))
Min(a, b) == IF a <= b THEN a ELSE b
Max(a, b) == IF a >= b THEN a ELSE b

\* The hunks of old -> new: none when the texts are equal, else one hunk
\* from Context lines before the first change to Context lines after the
\* last one (texts of the model are too short for a second hunk).
structuredPatch(old, new) ==
  LET ops == diffLines(old, new)
      changed == { i \in 1..Len(ops) : ops[i][1] # " " }
  IN IF changed = {} THEN <<>>
     ELSE LET first == CHOOSE i \in changed : \A j \in changed : i <= j
              last == CHOOSE i \in changed : \A j \in changed : j <= i
              from == Max(1, first - Context)
              to == Min(Len(ops), last + Context)
              lines == SubSeq(ops, from, to)
          IN << [oldStart |-> from, oldLines |-> Count(lines, {" ", "-"}),
                 newStart |-> from, newLines |-> Count(lines, {" ", "+"}),
                 lines |-> lines] >>

\* The unified-diff text of one hunk: its @@ line, then its lines.  A range
\* of no lines is written with its start one lower.
formatHunk(h) ==
  << <<"@@", IF h.oldLines = 0 THEN h.oldStart - 1 ELSE h.oldStart, h.oldLines,
            IF h.newLines = 0 THEN h.newStart - 1 ELSE h.newStart, h.newLines>> >>
  \o h.lines

\* createPatch of the library: the patch text, a sequence of lines.
diffCreate(fileName, old, new, oldHeader, newHeader) ==
  LET hunks == structuredPatch(old, new)
  IN << <<"Index:", fileName>>,
        <<"---", fileName, oldHeader>>,
        <<"+++", fileName, newHeader>> >>
     \o (IF hunks = <<>> THEN <<>> ELSE formatHunk(hunks[1]))

\* parsePatch of the library: the hunks read back from the text of one file.
parsePatch(text) ==
  LET at == { i \in 1..Len(text) : text[i][1] = "@@" }
  IN IF at = {} THEN << [hunks |-> <<>>] >>
     ELSE LET i == CHOOSE k \in at : TRUE
              hd == text[i]
          IN << [hunks |->
                  << [oldStart |-> IF hd[3] = 0 THEN hd[2] + 1 ELSE hd[2],
                      oldLines |-> hd[3],
                      newStart |-> IF hd[5] = 0 THEN hd[4] + 1 ELSE hd[4],
                      newLines |-> hd[5],
                      lines |-> SubSeq(text, i + 1, Len(text))] >>] >>

\* The lines of a hunk that the patched text must already hold.
oldSide(hunk) == SelectSeq(hunk.lines, LAMBDA o : o[1] \in {" ", "-"})

\* The hunk fits at toPos (lines before it) when at most fuzz of its old-side
\* lines differ from the text there; a line past the end differs.
hunkFits(lines, hunk, toPos, fuzz) ==
  LET old == oldSide(hunk)
      errors == { j \in 1..Len(old) :
                    \/ toPos + j > Len(lines)
                    \/ lines[toPos + j] # old[j][2] }
  IN Cardinality(errors) <= fuzz

\* The text with the hunk's lines played over it: a common line keeps the
\* line of the text, "-" drops it, "+" puts the hunk's line in.
RECURSIVE playHunk(_, _)
playHunk(ops, rest) ==
  IF ops = <<>> THEN rest
  ELSE LET o == Head(ops)
       IN IF o[1] = "+" THEN <<o[2]>> \o playHunk(Tail(ops), rest)
          ELSE IF o[1] = "-"
            THEN playHunk(Tail(ops), IF rest = <<>> THEN rest ELSE Tail(rest))
          ELSE IF rest = <<>> THEN playHunk(Tail(ops), rest)
          ELSE <<Head(rest)>> \o playHunk(Tail(ops), Tail(rest))

\* applyPatch of the library: the recorded position is tried first, then
\* the positions after it, up to the last one the hunk has room at.
diffApply(source, patch, fuzz) ==
  IF patch.hunks = <<>> THEN [ok |-> TRUE, text |-> source]
  ELSE LET hunk == patch.hunks[1]
           start == hunk.oldStart - 1
           maxLine == Len(source) - hunk.oldLines
           fits == { pos \in start..Max(start, maxLine) :
                       hunkFits(source, hunk, pos, fuzz) }
       IN IF fits = {} THEN [ok |-> FALSE, text |-> <<>>]
          ELSE LET pos == CHOOSE q \in fits : \A r \in fits : q <= r
               IN [ok |-> TRUE,
                   text |-> SubSeq(source, 1, pos)
                            \o playHunk(hunk.lines, SubSeq(source, pos + 1, Len(source)))]

\* ------------------------------------------------------------- operations
ensurePatchesDir(f) == mkdir(f, PATCHES_DIR)

\* createPatch that moves the live file into the record, not a copy of it.
createPatch_MovesFile(f, filePath) ==
  LET fileName == basename(filePath)
      patchDir == PatchDirOf(fileName)
      f1 == mkdir(ensurePatchesDir(f), patchDir)
  IN IF ~readable(f1, filePath) THEN Fail(f1, "ENOENT")
     ELSE LET originalContent == readFile(f1, filePath)
              f2 == unlink(writeFile(f1, CopyPathOf(fileName), originalContent), filePath)
          IN Ok(writeFile(f2, OrigPathOf(fileName), resolve(filePath)))

createPatch(f, filePath) ==
  LET fileName == basename(filePath)
      patchDir == PatchDirOf(fileName)
      f1 == mkdir(ensurePatchesDir(f), patchDir)
  IN IF ~readable(f1, filePath) THEN Fail(f1, "ENOENT")
     ELSE LET originalContent == readFile(f1, filePath)
              f2 == writeFile(f1, CopyPathOf(fileName), originalContent)
          IN Ok(writeFile(f2, OrigPathOf(fileName), resolve(filePath)))

\* fs.unlink(p).catch(() => {}): the delete is tried and its failure is
\* swallowed; denied holds the paths whose delete the system refuses.
unlinkCaught(f, p, denied) == IF p \in denied THEN f ELSE unlink(f, p)

\* commitPatch whose closing delete is awaited without the catch.
commitPatchWith_CleanupThrows(f, filePath, denied) ==
  LET fileName == basename(filePath)
      copyPath == CopyPathOf(fileName)
  IN IF ~readable(f, filePath) \/ ~readable(f, copyPath) THEN Fail(f, "ENOENT")
     ELSE LET patchContent == diffCreate(fileName, readFile(f, filePath),
                                         readFile(f, copyPath), "original", "modified")
              f1 == writeFile(f, PatchPathOf(fileName), patchContent)
          IN IF copyPath \in denied THEN Fail(f1, "EPERM") ELSE Ok(unlink(f1, copyPath))

\* commitPatch that adds the new diff at the end of the patch text it finds.
commitPatchWith_Appends(f, filePath, denied) ==
  LET fileName == basename(filePath)
      copyPath == CopyPathOf(fileName)
      patchPath == PatchPathOf(fileName)
  IN IF ~readable(f, filePath) \/ ~readable(f, copyPath) THEN Fail(f, "ENOENT")
     ELSE LET patchContent == diffCreate(fileName, readFile(f, filePath),
                                         readFile(f, copyPath), "original", "modified")
              before == IF readable(f, patchPath) THEN readFile(f, patchPath) ELSE <<>>
              f1 == writeFile(f, patchPath, before \o patchContent)
          IN Ok(unlinkCaught(f1, copyPath, denied))

\* commitPatch under a system that refuses to delete the paths in denied.
commitPatchWith(f, filePath, denied) ==
  LET fileName == basename(filePath)
      copyPath == CopyPathOf(fileName)
  IN IF ~readable(f, filePath) \/ ~readable(f, copyPath) THEN Fail(f, "ENOENT")
     ELSE LET patchContent == diffCreate(fileName, readFile(f, filePath),
                                         readFile(f, copyPath), "original", "modified")
              f1 == writeFile(f, PatchPathOf(fileName), patchContent)
          IN Ok(unlinkCaught(f1, copyPath, denied))

\* commitPatch that takes a missing snapshot for an empty one.
commitPatch_NoSnapshotNeeded(f, filePath) ==
  LET fileName == basename(filePath)
      copyPath == CopyPathOf(fileName)
  IN IF ~readable(f, filePath) THEN Fail(f, "ENOENT")
     ELSE LET modifiedContent == IF readable(f, copyPath) THEN readFile(f, copyPath) ELSE <<>>
              patchContent == diffCreate(fileName, readFile(f, filePath),
                                         modifiedContent, "original", "modified")
              f1 == writeFile(f, PatchPathOf(fileName), patchContent)
          IN Ok(unlink(f1, copyPath))

\* commitPatch that opens the patch text for writing before it reads its
\* two inputs.
commitPatch_WritesFirst(f, filePath) ==
  LET fileName == basename(filePath)
      copyPath == CopyPathOf(fileName)
      f0 == writeFile(f, PatchPathOf(fileName), <<>>)
  IN IF ~readable(f, filePath) \/ ~readable(f, copyPath) THEN Fail(f0, "ENOENT")
     ELSE LET patchContent == diffCreate(fileName, readFile(f, filePath),
                                         readFile(f, copyPath), "original", "modified")
              f1 == writeFile(f0, PatchPathOf(fileName), patchContent)
          IN Ok(unlink(f1, copyPath))

commitPatch(f, filePath) == commitPatchWith(f, filePath, {})

\* applyPatch that takes the backup before it looks for the patch text.
applyPatch_BackupFirst(f, filePath) ==
  LET fileName == basename(filePath)
      patchPath == PatchPathOf(fileName)
      patchedPath == PatchedPathOf(fileName)
  IN IF ~readable(f, filePath) THEN Fail(f, "ENOENT")
     ELSE LET f0 == copyFile(f, filePath, BackupPathOf(fileName))
          IN IF ~exists(f0, patchPath) THEN Fail(f0, "ENOENT")
             ELSE LET patches == parsePatch(readFile(f0, patchPath))
                      res == diffApply(readFile(f0, filePath), patches[1], FuzzFactor)
                  IN IF ~res.ok THEN Fail(f0, "conflict")
                     ELSE LET f1 == writeFile(f0, patchedPath, res.text)
                              f3 == unlink(f1, filePath)
                          IN Ok(symlink(f3, patchedPath, filePath))

\* applyPatch with the patched-result written before the library's result is
\* tested.
applyPatch_WritesBeforeCheck(f, filePath) ==
  LET fileName == basename(filePath)
      patchPath == PatchPathOf(fileName)
      patchedPath == PatchedPathOf(fileName)
  IN IF ~exists(f, patchPath) THEN Fail(f, "ENOENT")
     ELSE IF ~readable(f, filePath) THEN Fail(f, "ENOENT")
     ELSE LET patches == parsePatch(readFile(f, patchPath))
              res == diffApply(readFile(f, filePath), patches[1], FuzzFactor)
              f1 == writeFile(f, patchedPath, res.text)
          IN IF ~res.ok THEN Fail(f1, "conflict")
             ELSE LET f2 == copyFile(f1, filePath, BackupPathOf(fileName))
                      f3 == unlink(f2, filePath)
                  IN Ok(symlink(f3, patchedPath, filePath))

\* applyPatch that works on the live file the record names in
\* original-path.txt, whatever path it is given.
applyPatch_ByStoredPath(f, filePath) ==
  LET fileName == basename(filePath)
      patchPath == PatchPathOf(fileName)
      patchedPath == PatchedPathOf(fileName)
      stored == IF readable(f, OrigPathOf(fileName))
                THEN { q \in LivePaths : resolve(q) = readFile(f, OrigPathOf(fileName)) }
                ELSE {}
      livePath == IF stored = {} THEN filePath ELSE CHOOSE q \in stored : TRUE
  IN IF ~exists(f, patchPath) THEN Fail(f, "ENOENT")
     ELSE IF ~readable(f, livePath) THEN Fail(f, "ENOENT")
     ELSE LET patches == parsePatch(readFile(f, patchPath))
              res == diffApply(readFile(f, livePath), patches[1], FuzzFactor)
          IN IF ~res.ok THEN Fail(f, "conflict")
             ELSE LET f1 == writeFile(f, patchedPath, res.text)
                      f2 == copyFile(f1, livePath, BackupPathOf(fileName))
                      f3 == unlink(f2, livePath)
                  IN Ok(symlink(f3, patchedPath, livePath))

applyPatch(f, filePath) ==
  LET fileName == basename(filePath)
      patchPath == PatchPathOf(fileName)
      patchedPath == PatchedPathOf(fileName)
  IN IF ~exists(f, patchPath) THEN Fail(f, "ENOENT")
     ELSE IF ~readable(f, filePath) THEN Fail(f, "ENOENT")
     ELSE LET patches == parsePatch(readFile(f, patchPath))
              res == diffApply(readFile(f, filePath), patches[1], FuzzFactor)
          IN IF ~res.ok THEN Fail(f, "conflict")
             ELSE LET f1 == writeFile(f, patchedPath, res.text)
                      f2 == copyFile(f1, filePath, BackupPathOf(fileName))
                      f3 == unlink(f2, filePath)
                  IN Ok(symlink(f3, patchedPath, filePath))

\* revertPatch without the two deletes that end it.
revertPatch_KeepsBackup(f, filePath) ==
  LET fileName == basename(filePath)
      backupPath == BackupPathOf(fileName)
  IN IF ~exists(f, backupPath) THEN Fail(f, "ENOENT")
     ELSE IF lstat(f, filePath).kind = "none" THEN Fail(f, "ENOENT")
     ELSE IF lstat(f, filePath).kind = "symlink"
       THEN Ok(copyFile(unlink(f, filePath), backupPath, filePath))
     ELSE Ok(f)

\* revertPatch that puts the patched-result back, not the backup.
revertPatch_RestoresPatched(f, filePath) ==
  LET fileName == basename(filePath)
      backupPath == BackupPathOf(fileName)
      patchedPath == PatchedPathOf(fileName)
  IN IF ~exists(f, backupPath) THEN Fail(f, "ENOENT")
     ELSE IF lstat(f, filePath).kind = "none" THEN Fail(f, "ENOENT")
     ELSE IF lstat(f, filePath).kind = "symlink"
       THEN LET f1 == unlink(f, filePath)
                f2 == copyFile(f1, patchedPath, filePath)
            IN Ok(unlink(unlink(f2, backupPath), patchedPath))
     ELSE Ok(f)

\* revertPatch that takes a missing live path for an interrupted run and
\* restores the backup.
revertPatch_RepairsMissing(f, filePath) ==
  LET fileName == basename(filePath)
      backupPath == BackupPathOf(fileName)
      patchedPath == PatchedPathOf(fileName)
  IN IF ~exists(f, backupPath) THEN Fail(f, "ENOENT")
     ELSE IF lstat(f, filePath).kind \in {"none", "symlink"}
       THEN LET f1 == unlink(f, filePath)
                f2 == copyFile(f1, backupPath, filePath)
            IN Ok(unlink(unlink(f2, backupPath), patchedPath))
     ELSE Ok(f)

\* revertPatch under a system that refuses to delete the paths in denied.
revertPatchWith(f, filePath, denied) ==
  LET fileName == basename(filePath)
      backupPath == BackupPathOf(fileName)
      patchedPath == PatchedPathOf(fileName)
  IN IF ~exists(f, backupPath) THEN Fail(f, "ENOENT")
     ELSE IF lstat(f, filePath).kind = "none" THEN Fail(f, "ENOENT")
     ELSE IF lstat(f, filePath).kind = "symlink"
       THEN LET f1 == unlink(f, filePath)
                f2 == copyFile(f1, backupPath, filePath)
                f3 == unlinkCaught(f2, backupPath, denied)
            IN Ok(unlinkCaught(f3, patchedPath, denied))
     ELSE Ok(f)

revertPatch(f, filePath) == revertPatchWith(f, filePath, {})

\* ---------------------------------------------------------- state machine
\* The invocations whose filesystem calls may be taken one at a time.
Procs == {1, 2}

\* An invocation: whether it runs, the call it is at, its arguments and locals.
Proc(status, pc, op, p, originalContent, text) ==
  [status |-> status, pc |-> pc, op |-> op, path |-> p,
   originalContent |-> originalContent, text |-> text]

\* No invocation: every command runs as a whole.
Off == Proc("off", 0, "none", <<>>, <<>>, <<>>)
\* A process that has not run a command yet.
Idle == Proc("idle", 0, "none", <<>>, <<>>, <<>>)

Returned(op, p, r) == [op |-> op, path |-> p, err |-> r.err]

\* What has succeeded so far, op among it if this invocation did.
Noted(op, r) == IF r.err = "none" THEN succeeded \cup {op} ELSE succeeded

Unknown == [known |-> FALSE, data |-> <<>>]

\* No text on disk is longer than the bound (an apply repeated on an applied
\* file makes the patched-result grow without end).
Bounded(f) ==
  \A p \in DOMAIN f : f[p].kind = "file" /\ p \notin {PatchPathOf(FileName)}
                        => Len(f[p].data) <= MaxLen

\* One live file, in the working directory or in another directory, holding
\* any text; nothing is tracked yet.
Init ==
  /\ fs \in { [p \in FsPaths |-> IF p = live THEN File(c) ELSE Nothing] :
              live \in LivePaths, c \in Contents }
  /\ result = [op |-> "none", path |-> <<>>, err |-> "none"]
  /\ preApply = [p \in LivePaths |-> Unknown]
  /\ succeeded = {}
  /\ procs = [i \in Procs |-> Off]

Create(p) ==
  LET r == createPatch(fs, p)
  IN /\ fs' = r.fs
     /\ result' = Returned("create", p, r)
     /\ succeeded' = Noted("create", r)
     /\ UNCHANGED <<preApply, procs>>

Commit(p) ==
  LET r == commitPatch(fs, p)
  IN /\ fs' = r.fs
     /\ result' = Returned("commit", p, r)
     /\ succeeded' = Noted("commit", r)
     /\ UNCHANGED <<preApply, procs>>

Apply(p) ==
  LET r == applyPatch(fs, p)
  IN /\ Bounded(r.fs)
     /\ fs' = r.fs
     /\ result' = Returned("apply", p, r)
     /\ UNCHANGED <<succeeded, procs>>
     /\ preApply' = IF r.err = "none"
                    THEN [preApply EXCEPT ![p] = [known |-> TRUE, data |-> readFile(fs, p)]]
                    ELSE preApply

Revert(p) ==
  LET r == revertPatch(fs, p)
  IN /\ fs' = r.fs
     /\ result' = Returned("revert", p, r)
     /\ UNCHANGED <<succeeded, procs>>
     /\ preApply' = IF r.err = "none" /\ lstat(fs, p).kind = "symlink"
                    THEN [preApply EXCEPT ![p] = Unknown]
                    ELSE preApply

\* The user edits the snapshot copy in the record directory.
EditSnapshot(c) ==
  /\ lstat(fs, CopyPathOf(FileName)).kind = "file"
  /\ fs' = writeFile(fs, CopyPathOf(FileName), c)
  /\ UNCHANGED <<result, preApply, succeeded, procs>>

\* The user edits a live file that is a regular file.
EditLive(p, c) ==
  /\ lstat(fs, p).kind = "file"
  /\ fs' = writeFile(fs, p, c)
  /\ UNCHANGED <<result, preApply, succeeded, procs>>

Next ==
  \/ \E p \in LivePaths : Create(p)
  \/ \E p \in LivePaths : Commit(p)
  \/ \E p \in LivePaths : Apply(p)
  \/ \E p \in LivePaths : Revert(p)
  \/ \E c \in Contents : EditSnapshot(c)
  \/ \E p \in LivePaths, c \in Contents : EditLive(p, c)

Spec == Init /\ [][Next]_vars

\* ------------------------------------------------ deletes that are refused
\* The files commitPatch and revertPatch delete on a best-effort basis.
CommitCleanup == { CopyPathOf(FileName) }
RevertCleanup == { BackupPathOf(FileName), PatchedPathOf(FileName) }

\* A commit during which the system refuses to delete the files in denied.
CommitDenied(p, denied) ==
  LET r == commitPatchWith(fs, p, denied)
  IN /\ fs' = r.fs
     /\ result' = Returned("commit", p, r)
     /\ succeeded' = Noted("commit", r)
     /\ UNCHANGED <<preApply, procs>>

\* A revert during which the system refuses to delete the files in denied.
RevertDenied(p, denied) ==
  LET r == revertPatchWith(fs, p, denied)
  IN /\ fs' = r.fs
     /\ result' = Returned("revert", p, r)
     /\ UNCHANGED <<succeeded, procs>>
     /\ preApply' = IF r.err = "none" /\ lstat(fs, p).kind = "symlink"
                    THEN [preApply EXCEPT ![p] = Unknown]
                    ELSE preApply

\* The four commands, any delete of the best-effort kind refused or not,
\* and the user's edits of the snapshot.
NextDenied ==
  \/ \E p \in LivePaths : Create(p)
  \/ \E p \in LivePaths, denied \in SUBSET CommitCleanup : CommitDenied(p, denied)
  \/ \E p \in LivePaths : Apply(p)
  \/ \E p \in LivePaths, denied \in SUBSET RevertCleanup : RevertDenied(p, denied)
  \/ \E c \in Contents : EditSnapshot(c)

SpecDenied == Init /\ [][NextDenied]_vars

\* Create and commit only, the snapshot's delete refused or not, and the
\* user's edits of the snapshot and of the live file.
NextRecommit ==
  \/ \E p \in LivePaths : Create(p)
  \/ \E p \in LivePaths, denied \in SUBSET CommitCleanup : CommitDenied(p, denied)
  \/ \E c \in Contents : EditSnapshot(c)
  \/ \E p \in LivePaths, c \in Contents : EditLive(p, c)

SpecRecommit == Init /\ [][NextRecommit]_vars

\* ------------------------------------- two live files of one base name
\* Both live files are there, each holding any text; nothing is tracked yet.
InitShared ==
  /\ fs \in { [p \in FsPaths |-> IF p \in LivePaths THEN File(c[p]) ELSE Nothing] :
              c \in [LivePaths -> Contents] }
  /\ result = [op |-> "none", path |-> <<>>, err |-> "none"]
  /\ preApply = [p \in LivePaths |-> Unknown]
  /\ succeeded = {}
  /\ procs = [i \in Procs |-> Off]

\* The four commands on either file.
NextShared ==
  \/ \E p \in LivePaths : Create(p)
  \/ \E p \in LivePaths : Commit(p)
  \/ \E p \in LivePaths : Apply(p)
  \/ \E p \in LivePaths : Revert(p)

SpecShared == InitShared /\ [][NextShared]_vars

\* ------------------------------------------- one filesystem call at a time
\* applyPatch with its calls in the order live file, backup: the live file is
\* deleted before it is copied.
ApplyCalls_UnlinkFirst ==
  <<"access", "readLive", "readPatch", "writePatched", "unlink", "backup", "symlink">>

\* The awaited filesystem calls of applyPatch and of revertPatch, in order.
ApplyCalls ==
  <<"access", "readLive", "readPatch", "writePatched", "backup", "unlink", "symlink">>
RevertCalls ==
  <<"access", "lstat", "unlink", "restore", "unlinkBackup", "unlinkPatched">>
callsOf(op) == IF op = "apply" THEN ApplyCalls ELSE RevertCalls

\* Process self is running op and its next call is call.
At(self, op, call) ==
  /\ procs[self].status = "running"
  /\ procs[self].op = op
  /\ callsOf(op)[procs[self].pc] = call

\* Process self has just made a call and holds the locals of pr: it goes on
\* to its next call, or returns success after its last one.
Proceed(self, pr) ==
  IF pr.pc = Len(callsOf(pr.op))
  THEN /\ procs' = [procs EXCEPT ![self] = [pr EXCEPT !.status = "done"]]
       /\ result' = [op |-> pr.op, path |-> pr.path, err |-> "none"]
  ELSE /\ procs' = [procs EXCEPT ![self] = [pr EXCEPT !.pc = pr.pc + 1]]
       /\ UNCHANGED result

\* The call of process self throws e: the command stops where it is.
Throw(self, e) ==
  /\ procs' = [procs EXCEPT ![self].status = "failed"]
  /\ result' = [op |-> procs[self].op, path |-> procs[self].path, err |-> e]
  /\ UNCHANGED <<fs, preApply, succeeded>>

\* Nobody is in the middle of a command, but for applies if applies is set.
Quiet(self, applies) ==
  \A other \in Procs \ {self} :
    procs[other].status = "running" => (applies /\ procs[other].op = "apply")

\* A process (a new one, if the last one was killed) starts applyPatch on a live path that is a regular file, alone
\* or next to other applies, or revertPatch on a live path that is a symlink,
\* alone.
Start(self, op, p) ==
  /\ procs[self].status \in {"idle", "done", "failed", "crashed"}
  /\ \/ op = "apply" /\ lstat(fs, p).kind = "file" /\ Quiet(self, TRUE)
     \/ op = "revert" /\ lstat(fs, p).kind = "symlink" /\ Quiet(self, FALSE)
  /\ procs' = [procs EXCEPT ![self] = Proc("running", 1, op, p, <<>>, <<>>)]
  /\ UNCHANGED <<fs, result, preApply, succeeded>>

\* The process is killed between two calls.
Crash(self) ==
  /\ procs[self].status = "running"
  /\ procs' = [procs EXCEPT ![self].status = "crashed"]
  /\ UNCHANGED <<fs, result, preApply, succeeded>>

ApplyAccess(self) ==
  /\ At(self, "apply", "access")
  /\ IF exists(fs, PatchPathOf(basename(procs[self].path)))
     THEN Proceed(self, procs[self]) /\ UNCHANGED <<fs, preApply, succeeded>>
     ELSE Throw(self, "ENOENT")

ApplyReadLive(self) ==
  /\ At(self, "apply", "readLive")
  /\ IF readable(fs, procs[self].path)
     THEN /\ Proceed(self, [procs[self] EXCEPT
                              !.originalContent = readFile(fs, procs[self].path)])
          /\ UNCHANGED <<fs, preApply, succeeded>>
     ELSE Throw(self, "ENOENT")

\* The patch text is read, parsed and applied to the text read before.
ApplyReadPatch(self) ==
  /\ At(self, "apply", "readPatch")
  /\ LET patchPath == PatchPathOf(basename(procs[self].path))
     IN IF ~readable(fs, patchPath) THEN Throw(self, "ENOENT")
        ELSE LET patches == parsePatch(readFile(fs, patchPath))
                 res == diffApply(procs[self].originalContent, patches[1], FuzzFactor)
             IN IF ~res.ok THEN Throw(self, "conflict")
                ELSE /\ Len(res.text) <= MaxLen
                     /\ Proceed(self, [procs[self] EXCEPT !.text = res.text])
                     /\ preApply' = [preApply EXCEPT ![procs[self].path] =
                                       [known |-> TRUE, data |-> procs[self].originalContent]]
                     /\ UNCHANGED <<fs, succeeded>>

ApplyWritePatched(self) ==
  /\ At(self, "apply", "writePatched")
  /\ fs' = writeFile(fs, PatchedPathOf(basename(procs[self].path)), procs[self].text)
  /\ Proceed(self, procs[self])
  /\ UNCHANGED <<preApply, succeeded>>

\* ApplyBackup's call with the backup written from the text read at the
\* start, not copied from the live path.
backupCall_FromMemory(f, pr) ==
  IF ~readable(f, pr.path) THEN Fail(f, "ENOENT")
  ELSE Ok(writeFile(f, BackupPathOf(basename(pr.path)), pr.originalContent))

\* copyFile(filePath, backupPath), as the process pr makes it.
backupCall(f, pr) ==
  IF ~readable(f, pr.path) THEN Fail(f, "ENOENT")
  ELSE Ok(copyFile(f, pr.path, BackupPathOf(basename(pr.path))))

ApplyBackup(self) ==
  /\ At(self, "apply", "backup")
  /\ LET r == backupCall(fs, procs[self])
     IN IF r.err = "none"
        THEN /\ fs' = r.fs
             /\ Proceed(self, procs[self])
             /\ UNCHANGED <<preApply, succeeded>>
        ELSE Throw(self, r.err)

ApplyUnlink(self) ==
  /\ At(self, "apply", "unlink")
  /\ IF lstat(fs, procs[self].path).kind # "none"
     THEN /\ fs' = unlink(fs, procs[self].path)
          /\ Proceed(self, procs[self])
          /\ UNCHANGED <<preApply, succeeded>>
     ELSE Throw(self, "ENOENT")

ApplySymlink(self) ==
  /\ At(self, "apply", "symlink")
  /\ IF lstat(fs, procs[self].path).kind = "none"
     THEN /\ fs' = symlink(fs, PatchedPathOf(basename(procs[self].path)), procs[self].path)
          /\ Proceed(self, procs[self])
          /\ UNCHANGED <<preApply, succeeded>>
     ELSE Throw(self, "EEXIST")

RevertAccess(self) ==
  /\ At(self, "revert", "access")
  /\ IF exists(fs, BackupPathOf(basename(procs[self].path)))
     THEN Proceed(self, procs[self]) /\ UNCHANGED <<fs, preApply, succeeded>>
     ELSE Throw(self, "ENOENT")

\* A live path that is no symlink ends the command at once, with success.
RevertLstat(self) ==
  /\ At(self, "revert", "lstat")
  /\ IF lstat(fs, procs[self].path).kind = "none" THEN Throw(self, "ENOENT")
     ELSE /\ IF lstat(fs, procs[self].path).kind = "symlink"
             THEN Proceed(self, procs[self])
             ELSE Proceed(self, [procs[self] EXCEPT !.pc = Len(RevertCalls)])
          /\ UNCHANGED <<fs, preApply, succeeded>>

RevertUnlink(self) ==
  /\ At(self, "revert", "unlink")
  /\ IF lstat(fs, procs[self].path).kind # "none"
     THEN /\ fs' = unlink(fs, procs[self].path)
          /\ Proceed(self, procs[self])
          /\ UNCHANGED <<preApply, succeeded>>
     ELSE Throw(self, "ENOENT")

RevertRestore(self) ==
  /\ At(self, "revert", "restore")
  /\ LET backupPath == BackupPathOf(basename(procs[self].path))
     IN IF readable(fs, backupPath)
        THEN /\ fs' = copyFile(fs, backupPath, procs[self].path)
             /\ Proceed(self, procs[self])
             /\ preApply' = [preApply EXCEPT ![procs[self].path] = Unknown]
             /\ UNCHANGED succeeded
        ELSE Throw(self, "ENOENT")

RevertUnlinkBackup(self) ==
  /\ At(self, "revert", "unlinkBackup")
  /\ fs' = unlinkCaught(fs, BackupPathOf(basename(procs[self].path)), {})
  /\ Proceed(self, procs[self])
  /\ UNCHANGED <<preApply, succeeded>>

RevertUnlinkPatched(self) ==
  /\ At(self, "revert", "unlinkPatched")
  /\ fs' = unlinkCaught(fs, PatchedPathOf(basename(procs[self].path)), {})
  /\ Proceed(self, procs[self])
  /\ UNCHANGED <<preApply, succeeded>>

NextCalls ==
  \/ \E self \in Procs, op \in {"apply", "revert"}, p \in LivePaths : Start(self, op, p)
  \/ \E self \in Procs : Crash(self)
  \/ \E self \in Procs : ApplyAccess(self)
  \/ \E self \in Procs : ApplyReadLive(self)
  \/ \E self \in Procs : ApplyReadPatch(self)
  \/ \E self \in Procs : ApplyWritePatched(self)
  \/ \E self \in Procs : ApplyBackup(self)
  \/ \E self \in Procs : ApplyUnlink(self)
  \/ \E self \in Procs : ApplySymlink(self)
  \/ \E self \in Procs : RevertAccess(self)
  \/ \E self \in Procs : RevertLstat(self)
  \/ \E self \in Procs : RevertUnlink(self)
  \/ \E self \in Procs : RevertRestore(self)
  \/ \E self \in Procs : RevertUnlinkBackup(self)
  \/ \E self \in Procs : RevertUnlinkPatched(self)

\* A record after create, an edit of the snapshot and commit, next to the
\* one live file, which holds any text.
Committed ==
  { [p \in FsPaths |->
       IF p = live THEN File(c)
       ELSE IF p \in {PATCHES_DIR, PatchDirOf(FileName)} THEN Dir
       ELSE IF p = OrigPathOf(FileName) THEN File(resolve(live))
       ELSE IF p = PatchPathOf(FileName)
         THEN File(diffCreate(FileName, old, new, "original", "modified"))
       ELSE Nothing] :
    live \in LivePaths, c \in Contents, old \in Contents, new \in Contents }

\* One process runs the commands one after the other and may be killed
\* between any two calls.
InitCrash ==
  /\ fs \in Committed
  /\ result = [op |-> "none", path |-> <<>>, err |-> "none"]
  /\ preApply = [p \in LivePaths |-> Unknown]
  /\ succeeded = {"create", "commit"}
  /\ procs = [i \in Procs |-> IF i = 1 THEN Idle ELSE Off]

SpecCrash == InitCrash /\ [][NextCalls]_vars

\* Two processes; their applies may overlap.
InitConcurrent ==
  /\ fs \in Committed
  /\ result = [op |-> "none", path |-> <<>>, err |-> "none"]
  /\ preApply = [p \in LivePaths |-> Unknown]
  /\ succeeded = {"create", "commit"}
  /\ procs = [i \in Procs |-> Idle]

SpecConcurrent == InitConcurrent /\ [][NextCalls]_vars

TypeOK == \A p \in FsPaths : fs[p].kind \in {"none", "dir", "file", "symlink"}

\* ----------------------------------------------------------- record states
hasDir(f) == lstat(f, PatchDirOf(FileName)).kind = "dir"
hasSnapshot(f) == lstat(f, CopyPathOf(FileName)).kind = "file"
hasOrigPath(f) == lstat(f, OrigPathOf(FileName)).kind = "file"
hasPatch(f) == lstat(f, PatchPathOf(FileName)).kind = "file"
hasPatched(f) == lstat(f, PatchedPathOf(FileName)).kind = "file"
hasBackup(f) == lstat(f, BackupPathOf(FileName)).kind = "file"

Untracked(f) == ~hasDir(f)
Tracked(f) == hasDir(f) /\ hasSnapshot(f) /\ hasOrigPath(f) /\ ~hasPatch(f)
Applied(f) == hasPatched(f) /\ hasBackup(f)

isFile(f, p) == lstat(f, p).kind = "file"
isSymlink(f, p) == lstat(f, p).kind = "symlink"

\* ------------------------------------------------------------------ claims

\* C1: round trip.  For a regular live file at any path, holding any text F,
\* and any edit E: create; the snapshot set to E; commit; apply, the live
\* file not touched in between, succeeds and leaves the live path a symbolic
\* link whose read returns E, the content of the patched-result file.
C1_RoundTrip ==
  \A p \in LivePaths, E \in Contents :
    isFile(fs, p) =>
      LET created == createPatch(fs, p)
          edited == writeFile(created.fs, CopyPathOf(FileName), E)
          committed == commitPatch(edited, p)
          applied == applyPatch(committed.fs, p)
      IN /\ created.err = "none" /\ committed.err = "none" /\ applied.err = "none"
         /\ isSymlink(applied.fs, p)
         /\ readFile(applied.fs, PatchedPathOf(FileName)) = E
         /\ readable(applied.fs, p)
         /\ readFile(applied.fs, p) = E

\* The round trip of C1 for the live file of the working directory alone.
C1_RoundTripCwd ==
  \A E \in Contents :
    LET p == <<FileName>>
    IN isFile(fs, p) =>
      LET created == createPatch(fs, p)
          edited == writeFile(created.fs, CopyPathOf(FileName), E)
          committed == commitPatch(edited, p)
          applied == applyPatch(committed.fs, p)
      IN /\ applied.err = "none"
         /\ isSymlink(applied.fs, p)
         /\ readable(applied.fs, p)
         /\ readFile(applied.fs, p) = E

\* C2: revert restores exact bytes.  Every revertPatch step that replaces the
\* symbolic link at the live path leaves there a regular file holding the
\* content a read of the live path returned right before the last
\* successful applyPatch on it.
C2_RevertRestoresBytes ==
  [][\A p \in LivePaths :
       (isSymlink(fs, p) /\ Revert(p) /\ ~isSymlink(fs', p))
         => (preApply[p].known /\ lstat(fs', p) = File(preApply[p].data))]_vars

C5_RevertNoOp ==
  [][\A p \in LivePaths :
       (isFile(fs, p) /\ Revert(p)) => (result'.err = "none" /\ fs' = fs)]_vars

\* C6: apply requires an untouched live file.  An applyPatch step taken while
\* the live path is a symbolic link changes no file; the backup in
\* particular keeps the pre-apply bytes.
C6_ApplyOnlyOnRegularFile ==
  [][\A p \in LivePaths : (isSymlink(fs, p) /\ Apply(p)) => fs' = fs]_vars

C8_IdempotentCreate ==
  [][\A p \in LivePaths :
       (result = [op |-> "create", path |-> p, err |-> "none"] /\ Create(p))
         => /\ result'.err = "none"
            /\ Tracked(fs')
            /\ readFile(fs', CopyPathOf(FileName)) = readFile(fs, p)]_vars

\* C8 but for the patch text: the second create succeeds and resets the
\* snapshot and the original-path, whatever the record held.
C8_SnapshotReset ==
  [][\A p \in LivePaths :
       (result = [op |-> "create", path |-> p, err |-> "none"] /\ Create(p))
         => /\ result'.err = "none"
            /\ hasDir(fs') /\ hasSnapshot(fs') /\ hasOrigPath(fs')
            /\ readFile(fs', CopyPathOf(FileName)) = readFile(fs, p)
            /\ readFile(fs', OrigPathOf(FileName)) = resolve(p)]_vars

\* C9: create postcondition.  Every createPatch step that succeeds leaves the
\* record Tracked: snapshot and original-path exist, no patch text exists.
C9_CreateLeavesTracked ==
  [][\A p \in LivePaths :
       (Create(p) /\ result'.err = "none") => Tracked(fs')]_vars

\* C10: create is all-or-nothing on a missing source.  A createPatch step on
\* a path no file can be read at returns an error and changes nothing on
\* disk: no record directory appears.
C10_CreateAllOrNothing ==
  [][\A p \in LivePaths :
       (~readable(fs, p) /\ Create(p)) => (result'.err # "none" /\ fs' = fs)]_vars

\* C11 as stated: a commit run again right after a successful commit on the
\* same path, no create in between, succeeds and leaves as patch text the diff
\* of the current live content against the current snapshot content.
C11_RerunSucceeds ==
  [][\A p \in LivePaths, denied \in SUBSET CommitCleanup :
       (result = [op |-> "commit", path |-> p, err |-> "none"] /\ CommitDenied(p, denied))
         => /\ result'.err = "none"
            /\ lstat(fs', PatchPathOf(FileName))
                 = File(diffCreate(FileName, readFile(fs, p),
                                   readFile(fs, CopyPathOf(FileName)),
                                   "original", "modified"))]_vars

\* C11: a commit run again right after a successful commit on the same path,
\* no create in between, succeeds exactly when the snapshot is still there
\* (its delete was refused); it then replaces the patch text as a whole with
\* the diff of the current live content against the current snapshot content.
\* When the snapshot is gone it fails with the not-found error and the patch
\* text, like every other file, stays as it was.
C11_RerunNeedsSnapshot ==
  [][\A p \in LivePaths, denied \in SUBSET CommitCleanup :
       (result = [op |-> "commit", path |-> p, err |-> "none"] /\ CommitDenied(p, denied))
         => IF hasSnapshot(fs)
            THEN /\ result'.err = "none"
                 /\ lstat(fs', PatchPathOf(FileName))
                      = File(diffCreate(FileName, readFile(fs, p),
                                        readFile(fs, CopyPathOf(FileName)),
                                        "original", "modified"))
            ELSE result'.err = "ENOENT" /\ fs' = fs]_vars

\* A commit has just failed for want of the snapshot on a live file that is
\* there, after a commit that succeeded.
C11_Witness ==
  /\ result.op = "commit" /\ result.err = "ENOENT"
  /\ "commit" \in succeeded
  /\ isFile(fs, result.path) /\ ~hasSnapshot(fs) /\ hasPatch(fs)

\* C12: applyPatch on a record without patch text (Untracked, or Tracked and
\* never committed) fails with the not-found error and changes no file: the
\* live file and every file of the record are as they were.
C12_ApplyWithoutPatch ==
  [][\A p \in LivePaths :
       (Apply(p) /\ ~hasPatch(fs)) => (result'.err = "ENOENT" /\ fs' = fs)]_vars

\* An apply has just failed for want of a patch text, on a live file that is
\* there and whose record is Tracked.
C12_Witness ==
  /\ result.op = "apply" /\ result.err = "ENOENT"
  /\ Tracked(fs)
  /\ isFile(fs, result.path)

\* C13: createPatch and commitPatch, succeeding or failing, leave every live
\* path as it was: the same type, the same content, the same symlink target.
C13_CreateCommitFrame ==
  [][\A p \in LivePaths :
       (Create(p) \/ Commit(p)) => \A q \in LivePaths : lstat(fs', q) = lstat(fs, q)]_vars

\* A commit has just succeeded on a live path that is a symlink.
C13_Witness ==
  /\ result.op = "commit" /\ result.err = "none"
  /\ isSymlink(fs, result.path)

\* The live path the record was created for, as create wrote it down.
recordedFor(f, p) == readFile(f, OrigPathOf(FileName)) = resolve(p)

\* The backup is there and holds the text the live file had before the apply.
backupHoldsPreApply(f, p) ==
  /\ hasBackup(f)
  /\ preApply[p].known
  /\ readFile(f, BackupPathOf(FileName)) = preApply[p].data

\* C14: in one applyPatch run on a regular live file, or one revertPatch run on
\* the Applied state it produced, seen after every filesystem call and also if
\* the run is killed after any of them: the live file is deleted only when the
\* patched-result and the backup are written, and whenever the live path is
\* missing or a symlink the backup exists and holds the pre-apply bytes.
C14_DestructiveStepLast ==
  /\ [](\A p \in LivePaths :
          (recordedFor(fs, p) /\ lstat(fs, p).kind \in {"none", "symlink"})
            => (hasPatched(fs) /\ backupHoldsPreApply(fs, p)))
  /\ [][\A p \in LivePaths :
          (lstat(fs, p).kind = "file" /\ lstat(fs', p).kind # "file")
            => /\ hasPatched(fs)
               /\ hasBackup(fs)
               /\ readFile(fs, BackupPathOf(FileName)) = readFile(fs, p)]_vars

\* The process was killed in applyPatch between the delete of the live file
\* and the symlink: the live path is missing, the backup is there.
C14_Witness ==
  \E self \in Procs, p \in LivePaths :
    /\ procs[self].status = "crashed"
    /\ procs[self].op = "apply" /\ procs[self].path = p
    /\ ApplyCalls[procs[self].pc] = "symlink"
    /\ lstat(fs, p).kind = "none"
    /\ hasBackup(fs)

\* The state an interrupted run leaves: patch text, patched-result and backup
\* are there, the live path is missing.
Torn(f, p) ==
  /\ hasPatch(f) /\ hasPatched(f) /\ hasBackup(f)
  /\ lstat(f, p).kind = "none"

\* Process self was killed in applyPatch between the delete of the live file
\* and the symlink, or in revertPatch between the delete of the symlink and
\* the restore of the backup.
killedMidway(self) ==
  /\ procs[self].status = "crashed"
  /\ \/ procs[self].op = "apply" /\ ApplyCalls[procs[self].pc] = "symlink"
     \/ procs[self].op = "revert" /\ RevertCalls[procs[self].pc] = "restore"

\* C15: a kill in applyPatch between the delete of the live file and the
\* symlink, and a kill in revertPatch between the delete of the symlink and the
\* restore, leave the same state on disk (patch text, patched-result and backup
\* there, live path missing); from it create, commit, apply and revert each
\* fail with an error and leave the live path missing.
C15_TornNeverRepaired ==
  \A self \in Procs :
    killedMidway(self) =>
      LET p == procs[self].path
      IN /\ Torn(fs, p)
         /\ \A r \in { createPatch(fs, p), commitPatch(fs, p),
                        applyPatch(fs, p), revertPatch(fs, p) } :
              r.err # "none" /\ lstat(r.fs, p).kind = "none"

\* The process was killed in revertPatch between the delete of the symlink
\* and the restore of the backup.
C15_Witness ==
  \E self \in Procs :
    /\ killedMidway(self)
    /\ procs[self].op = "revert"
    /\ Torn(fs, procs[self].path)

\* Process first has run applyPatch to its end on the live path process
\* second is applying to; both read the same text from it, and the patch
\* changes that text.
bothApply(first, second) ==
  /\ first # second
  /\ procs[first].op = "apply" /\ procs[first].status = "done"
  /\ procs[second].op = "apply" /\ procs[second].status \in {"running", "done"}
  /\ ApplyCalls[procs[second].pc] \in {"backup", "unlink", "symlink"}
  /\ procs[first].path = procs[second].path
  /\ procs[first].originalContent = procs[second].originalContent
  /\ procs[first].text # procs[first].originalContent

\* No file holds the text any more.
lost(f, text) == \A q \in FsPaths : f[q].kind = "file" => f[q].data # text

\* C16: with two applyPatch runs on one live path overlapping, both having read
\* the original content, a second run that copies the live path into the
\* backup after the first has installed the symlink makes the backup hold the
\* patched content, and no file holds the pre-apply bytes any more; a
\* revertPatch after both runs then restores the patched content as the live
\* file, not the original.
C16_OverlappingApplyLosesOriginal ==
  /\ [][\A first \in Procs, second \in Procs :
          ( /\ bothApply(first, second)
            /\ lstat(fs, procs[second].path).kind = "symlink"
            /\ ApplyBackup(second)
            /\ procs'[second].status = "running" )
            => /\ lstat(fs', BackupPathOf(FileName)) = File(procs[first].text)
               /\ lost(fs', procs[first].originalContent)]_vars
  /\ [](\A first \in Procs, second \in Procs :
          ( /\ bothApply(first, second)
            /\ procs[second].status = "done"
            /\ lstat(fs, procs[second].path).kind = "symlink"
            /\ hasBackup(fs)
            /\ readFile(fs, BackupPathOf(FileName)) # procs[first].originalContent )
            => LET p == procs[second].path
                   r == revertPatch(fs, p)
               IN /\ r.err = "none"
                  /\ lstat(r.fs, p) = File(procs[first].text)
                  /\ lost(r.fs, procs[first].originalContent))

\* Both runs have returned success, the live path is a symlink, and the backup
\* holds the patched content, which is not what the two runs read.
C16_Witness ==
  \E first \in Procs, second \in Procs :
    /\ bothApply(first, second)
    /\ procs[second].status = "done"
    /\ lstat(fs, procs[second].path).kind = "symlink"
    /\ lstat(fs, BackupPathOf(FileName)) = File(procs[first].text)
    /\ lost(fs, procs[first].originalContent)

\* The filesystem f with the record saying it was created for the live path q.
restamped(f, q) == writeFile(f, OrigPathOf(FileName), resolve(q))

\* What the invocation that returned r on the live path p may have changed:
\* the record of p's base name and p itself.
within(f, r, p) ==
  \A x \in FsPaths :
    x \notin RecordFiles \cup {p, PATCHES_DIR, PatchDirOf(basename(p))} => r.fs[x] = f[x]

\* The invocation returns the same and leaves the same files whichever live
\* path the record says it was created for: r is its outcome on f, rq its
\* outcome on f restamped for q.
blindToStoredPath(r, rq, q) == rq.err = r.err /\ rq.fs = restamped(r.fs, q)

\* C17: two live files of one base name in different directories share one
\* record.  createPatch on the second overwrites the snapshot and the
\* original-path written for the first and makes no second record; commit,
\* apply and revert on either path read and write that one record and work on
\* the live file at the path they are given, whatever original-path says.
C17_RecordKeyedByBaseName ==
  /\ [][\A p \in LivePaths, q \in LivePaths :
          ( /\ p # q
            /\ hasOrigPath(fs) /\ recordedFor(fs, p)
            /\ Create(q) /\ result'.err = "none" )
            => /\ recordedFor(fs', q)
               /\ lstat(fs', CopyPathOf(FileName)) = File(readFile(fs, q))
               /\ \A x \in FsPaths \ {CopyPathOf(FileName), OrigPathOf(FileName)} :
                    fs'[x] = fs[x]]_vars
  /\ [](hasOrigPath(fs) =>
          \A p \in LivePaths :
            LET commit == commitPatch(fs, p)
                apply == applyPatch(fs, p)
                revert == revertPatch(fs, p)
            IN /\ within(fs, commit, p) /\ within(fs, apply, p) /\ within(fs, revert, p)
               /\ \A q \in LivePaths :
                    /\ PatchDirOf(basename(p)) = PatchDirOf(basename(q))
                    /\ ~recordedFor(fs, q) =>
                         /\ blindToStoredPath(commit, commitPatch(restamped(fs, q), p), q)
                         /\ blindToStoredPath(apply, applyPatch(restamped(fs, q), p), q)
                         /\ blindToStoredPath(revert, revertPatch(restamped(fs, q), p), q))

\* An apply has just succeeded on one live file while the record says it was
\* created for the other, which is there as well.
C17_Witness ==
  \E p \in LivePaths, q \in LivePaths :
    /\ p # q
    /\ result = [op |-> "apply", path |-> p, err |-> "none"]
    /\ lstat(fs, p).kind = "symlink"
    /\ hasOrigPath(fs) /\ recordedFor(fs, q)
    /\ lstat(fs, q).kind = "file"

\* C18: a commit whose delete of the snapshot is refused still returns success
\* with the patch text written; a revert whose delete of the backup or of the
\* patched-result is refused still returns success with the live path a
\* regular file holding the backup's content.
C18_CleanupNeverFails ==
  [][\A p \in LivePaths :
       /\ \A denied \in SUBSET CommitCleanup :
            ( /\ denied # {}
              /\ readable(fs, p) /\ readable(fs, CopyPathOf(FileName))
              /\ CommitDenied(p, denied) )
              => /\ result'.err = "none"
                 /\ lstat(fs', PatchPathOf(FileName))
                      = File(diffCreate(FileName, readFile(fs, p),
                                        readFile(fs, CopyPathOf(FileName)),
                                        "original", "modified"))
       /\ \A denied \in SUBSET RevertCleanup :
            ( /\ denied # {}
              /\ hasBackup(fs) /\ isSymlink(fs, p)
              /\ RevertDenied(p, denied) )
              => /\ result'.err = "none"
                 /\ lstat(fs', p) = File(readFile(fs, BackupPathOf(FileName)))]_vars

\* A revert has just succeeded and left the backup and the patched-result
\* behind, the live file restored from the backup; the snapshot of the commit
\* before it was left behind as well.
C18_Witness ==
  /\ result.op = "revert" /\ result.err = "none"
  /\ hasBackup(fs) /\ hasPatched(fs) /\ hasSnapshot(fs) /\ hasPatch(fs)
  /\ lstat(fs, result.path) = File(readFile(fs, BackupPathOf(FileName)))

\* C19: a commit succeeds only after a create has succeeded, an apply succeeds
\* only after a commit has succeeded, and a revert changes the live path only
\* while an apply on it is in force (succeeded and not reverted since).
C19_LifecycleOrdering ==
  [][\A p \in LivePaths :
       /\ (Commit(p) /\ result'.err = "none") => "create" \in succeeded
       /\ (Apply(p) /\ result'.err = "none") => "commit" \in succeeded
       /\ (Revert(p) /\ lstat(fs', p) # lstat(fs, p)) => preApply[p].known]_vars

\* A revert has just put the live file back, after a create and a commit.
C19_Witness ==
  /\ result.op = "revert" /\ result.err = "none"
  /\ succeeded = {"create", "commit"}
  /\ isFile(fs, result.path) /\ ~hasBackup(fs) /\ hasPatch(fs)

\* C20: commitPatch invoked while the live file or the snapshot copy cannot be
\* read fails with an error and changes no file; a patch text that is there
\* keeps its content.
C20_FailedCommitChangesNothing ==
  [][\A p \in LivePaths :
       (Commit(p) /\ (~readable(fs, p) \/ ~readable(fs, CopyPathOf(FileName))))
         => (result'.err # "none" /\ fs' = fs)]_vars

\* A commit has just failed on a path where no live file is, the record
\* holding a patch text and a snapshot.
C20_Witness ==
  /\ result.op = "commit" /\ result.err = "ENOENT"
  /\ hasPatch(fs) /\ hasSnapshot(fs)
  /\ ~readable(fs, result.path)

====
